---- MODULE Spec2Model ----
(***************************************************************************)
(* The asset-loading scheduler of CUGL: AssetManager's directory loads     *)
(* (loadDirectory, loadDirectoryAsync, unloadDirectory, sync) on top of    *)
(* the Loader<T> layer (enqueue, purgeKey, reserve) and the read and       *)
(* materialize methods of FontLoader, WidgetLoader and Scene2Loader.       *)
(*                                                                         *)
(* Threads: "owner" is the main CUGL thread (it calls the manager and      *)
(* drains the Application::schedule hook), "mgr" is the single worker of   *)
(* the manager's thread pool, "own" is the worker of a thread pool that a  *)
(* loader was given for itself.                                            *)
(***************************************************************************)
EXTENDS Integers, Sequences, FiniteSets, Bags, TLC

\* Bounds of the model: the entries of a category, the largest priority.
MaxItems == 2
MaxRank == 2
\* Bounds of the calls made on a loader directly: how many, and the largest
\* amount reserved.
MaxCalls == 3
MaxReserve == 2
\* Bound of the asynchronous loads asked of the loaders directly.
MaxLoads == 2

Loaders == {"font", "widget", "scene2"}
Workers == {"mgr", "own"}
NoKey == ""

\* AssetManager::_jsonKeys: the category key each attached loader answers to.
JsonKeys == [fonts |-> "font", widgets |-> "widget", scene2s |-> "scene2"]

CatKeys == DOMAIN JsonKeys \cup {"bogus"}

(***************************************************************************)
(* Directory entries.  ok says whether the asset's bytes parse and build   *)
(* (preload / WidgetValue::alloc / build return non-null and, for a font,  *)
(* storeAtlases succeeds); kids are the names of a scene's "children";     *)
(* deps are the keys of a widget's "dependencies".                         *)
(***************************************************************************)
Entry(k, good, ks, ds) == [key |-> k, ok |-> good, kids |-> ks, deps |-> ds]

Plain(k) == Entry(k, TRUE, <<>>, <<>>)

Broken(k) == Entry(k, FALSE, <<>>, <<>>)

ItemsOf(c) ==
    CASE c = "fonts"   -> {Plain("a"), Broken("x")}
      [] c = "widgets" -> {Plain("a"), Entry("b", TRUE, <<>>, <<"d">>), Broken("x")}
      [] c = "scene2s" -> {Plain("a"), Entry("b", TRUE, <<"k">>, <<>>), Broken("x")}
      [] OTHER         -> {Plain("a")}

SeqsUpTo(S, n) == UNION {[1..m -> S] : m \in 1..n}

Category(c, its) == [cat |-> c, items |-> its]

CatsOf(c, n) == {Category(c, its) : its \in SeqsUpTo(ItemsOf(c), n)}

\* The directories that list categories with distinct keys among C, in any
\* order, with at most n entries each.
DirsOver(C, n) ==
    {d \in SeqsUpTo(UNION {CatsOf(c, n) : c \in C}, Cardinality(C)) :
        \A i, j \in DOMAIN d : i # j => d[i].cat # d[j].cat}

\* Directories that exercise the scheduler, of one entry per category: the
\* three attached loaders in any order, or two of them and an unknown key.
ScheduleDirs ==
    DirsOver(DOMAIN JsonKeys, 1) \cup DirsOver({"fonts", "scene2s", "bogus"}, 1)

\* Directories that exercise one loader: one category of up to MaxItems
\* entries.
LoaderDirs == UNION {DirsOver({c}, MaxItems) : c \in DOMAIN JsonKeys}

\* Directories of a font category of up to MaxItems entries and a category
\* with an unknown key, in either order.
UnknownDirs ==
    UNION {{<<c, Category("bogus", <<Plain("a")>>)>>, <<Category("bogus", <<Plain("a")>>), c>>} :
              c \in CatsOf("fonts", MaxItems)}

\* Directories of a category of several entries and a category that may rank
\* after it.
RankedDirs ==
    {<<Category("fonts", its), c>> :
        its \in [1..MaxItems -> ItemsOf("fonts")], c \in CatsOf("scene2s", 1)}

(***************************************************************************)
(* The Loader<T> layer: a loader is [assets, queue, reserved].             *)
(***************************************************************************)
EmptyLoader == [assets |-> {}, queue |-> {}, reserved |-> 0]

\* Loader::loadCount
LoadCount(L) == Cardinality(L.assets)


\* Loader::inFlight
InFlight(L) == Cardinality(L.queue)

\* a count of the keys in flight alone
WaitCountInFlight(L) == InFlight(L)

\* BaseLoader::waitCount
WaitCount(L) == L.reserved + InFlight(L)

\* BaseLoader::complete
Complete(L) == WaitCount(L) = 0

\* Loader::verify (BaseLoader::contains)
Verify(L, k) == k \in L.assets

\* BaseLoader::reserve
\* a reserve that adds to the counter
ReserveAdds(L, amount) == [L EXCEPT !.reserved = @ + amount]

Reserve(L, amount) == [L EXCEPT !.reserved = amount]

\* Loader::enqueue
\* an enqueue that decrements without the test
EnqueueUnguarded(L, k) ==
    [L EXCEPT !.queue = @ \cup {k}, !.reserved = @ - 1]

Enqueue(L, k) ==
    [L EXCEPT !.queue = @ \cup {k},
              !.reserved = IF @ # 0 THEN @ - 1 ELSE @]

\* whether enqueue(k) decrements the reserved counter
Decrements(L) == L.reserved # 0

\* _queue.erase(key) at the end of every materialize
EraseKey(L, k) == [L EXCEPT !.queue = @ \ {k}]

\* a purge that reports the key without erasing it
PurgeKeyKeeps(L, k) == [L |-> L, ok |-> k \in L.assets]

\* Loader::purgeKey
PurgeKey(L, k) ==
    IF k \in L.assets THEN [L |-> [L EXCEPT !.assets = @ \ {k}], ok |-> TRUE]
    ELSE [L |-> L, ok |-> FALSE]

\* a guard that looks at the loaded table alone
ReadGuardLoadedOnly(L, k) == k \in L.assets

\* the first test of every read: the key is already loaded or in flight
ReadGuard(L, k) == k \in L.assets \/ k \in L.queue

(***************************************************************************)
(* Scene2Loader::attach: the node under key, each child under              *)
(* key + "." + name.  (The children of the model's scenes are leaves.)     *)
(***************************************************************************)
ChildKey(k, name) == k \o "." \o name

Attach(A, k, ks) == A \cup {k} \cup {ChildKey(k, ks[i]) : i \in DOMAIN ks}

\* Scene2Loader::purgeJson: the key, then recursively each entry of
\* "children" under its own key.  BaseLoader::purgeJson for the other
\* loaders (whose entries have no kids): purgeKey(json->key()).
PurgeJson(L, e) ==
    LET top == PurgeKey(L, e.key)
        names == {e.kids[i] : i \in DOMAIN e.kids}
    IN  [L |-> [top.L EXCEPT !.assets = @ \ names],
         ok |-> top.ok /\ names \subseteq top.L.assets]

(***************************************************************************)
(* read and materialize.  A result is                                      *)
(*   L    the loader afterwards                                            *)
(*   ok   the value returned                                               *)
(*   cbs  the callback invocations, in order, as <<key, success>>          *)
(*   ins  the keys written into the asset table                            *)
(*   decs the keys whose enqueue decremented the reserved counter          *)
(*   ub   whether a null node was dereferenced (Scene2Loader::read calls   *)
(*        node->doLayout() on the result of build without a test)          *)
(***************************************************************************)
Result(L, good, cs, is, ds, u) ==
    [L |-> L, ok |-> good, cbs |-> cs, ins |-> is, decs |-> ds, ub |-> u]

\* The key materialize reports and erases.  Scene2Loader::materialize takes
\* no key: it reads it from the node, and leaves it "" for a null node.
MatKey(l, e) == IF l = "scene2" /\ ~e.ok THEN NoKey ELSE e.key

RECURSIVE ReadSync(_, _, _, _)
RECURSIVE Materialize(_, _, _, _)
RECURSIVE LoadDependencies(_, _, _)

\* WidgetLoader::materialize, lines 76-82: load(child) for every dependency
LoadDependencies(l, R, ds) ==
    IF ds = <<>> THEN R
    ELSE LET r == ReadSync(l, R.L, Plain(Head(ds)), FALSE)
         IN  LoadDependencies(l,
                 Result(r.L, R.ok, R.cbs \o r.cbs, R.ins \cup r.ins,
                        R.decs \o r.decs, R.ub \/ r.ub),
                 Tail(ds))

\* materialize up to, and without, its final _queue.erase(key)
Materialize(l, L, e, cb) ==
    LET stored == IF ~e.ok THEN Result(L, FALSE, <<>>, {}, <<>>, FALSE)
                  ELSE IF l = "scene2"
                       THEN Result([L EXCEPT !.assets = Attach(@, e.key, e.kids)],
                                   TRUE, <<>>,
                                   Attach({}, e.key, e.kids), <<>>, FALSE)
                  ELSE IF l = "widget"
                       THEN LoadDependencies(l,
                                Result([L EXCEPT !.assets = @ \cup {e.key}],
                                       TRUE, <<>>, {e.key}, <<>>, FALSE),
                                e.deps)
                  ELSE Result([L EXCEPT !.assets = @ \cup {e.key}],
                              TRUE, <<>>, {e.key}, <<>>, FALSE)
    IN  IF cb THEN [stored EXCEPT !.cbs = @ \o << <<MatKey(l, e), e.ok>> >>]
        ELSE stored

\* read(json, callback, async) on its synchronous branch
\* (_loader == nullptr || !async)
ReadSync(l, L, e, cb) ==
    IF ReadGuard(L, e.key) THEN Result(L, FALSE, <<>>, {}, <<>>, FALSE)
    ELSE LET m == Materialize(l, Enqueue(L, e.key), e, cb)
         IN  Result(EraseKey(m.L, MatKey(l, e)), m.ok, m.cbs, m.ins,
                    (IF Decrements(L) THEN <<e.key>> ELSE <<>>) \o m.decs,
                    m.ub \/ (l = "scene2" /\ ~e.ok))

(***************************************************************************)
(* State.                                                                  *)
(*   cfg      what the run is: the directory, AssetManager::_priority of   *)
(*            each loader, each loader's _loader ("mgr": the manager's     *)
(*            pool, "own": a pool of its own, "none": nullptr), the call   *)
(*            made ("sync": loadDirectory, "async": loadDirectoryAsync on  *)
(*            a JSON directory, "path": loadDirectoryAsync on a path) and  *)
(*            whether the caller passed a callback; null are the loaders   *)
(*            whose entry of AssetManager::_handlers is nullptr            *)
(*   loaders  _assets, _queue and _reserved of each attached loader        *)
(*   tasks    the FIFO task queue of each thread pool                      *)
(*   hook     the closures given to Application::schedule, not yet run     *)
(*   frame    the locals of the directory call in progress                 *)
(*   run      what each thread is executing                                *)
(*   preload  AssetManager::_preload                                       *)
(*   crashed  the process died on a null dereference                       *)
(*   hist     what has happened so far (history, read by the properties)   *)
(***************************************************************************)
VARIABLES cfg, loaders, tasks, hook, frame, run, preload, crashed, hist

vars == <<cfg, loaders, tasks, hook, frame, run, preload, crashed, hist>>

Idle == [op |-> "idle"]

NoFrame ==
    [pc |-> "none", th |-> "owner", ii |-> 1, jj |-> 1, entries |-> 0,
     curr |-> 0, next |-> 0, err |-> 0, success |-> TRUE]

NoHist ==
    [cbs |-> EmptyBag, ins |-> EmptyBag, decs |-> EmptyBag, started |-> {},
     matd |-> {}, cats |-> {}, disp |-> {}, barriers |-> 0, passed |-> 0,
     unload |-> "none", loads |-> {}, log |-> <<>>, obs |-> <<>>,
     unloads |-> <<>>]

Known(c) == c \in DOMAIN JsonKeys

Dir == cfg.dir

Rank(c) == cfg.rank[JsonKeys[c]]

BagAdd(B, x) == B (+) SetToBag({x})

RECURSIVE BagAddAll(_, _)
BagAddAll(B, xs) ==
    IF xs = <<>> THEN B ELSE BagAddAll(BagAdd(B, Head(xs)), Tail(xs))

SetToSeq(S) ==
    CHOOSE q \in [1..Cardinality(S) -> S] : \A x \in S : \E i \in DOMAIN q : q[i] = x

\* the history after a read or materialize with result r, of loader l, on thread th
Recorded(h, r, l, th) ==
    [h EXCEPT
        !.cbs = BagAddAll(@, [i \in DOMAIN r.cbs |-> <<l, r.cbs[i][1], r.cbs[i][2], th>>]),
        !.ins = BagAddAll(@, [i \in 1..Cardinality(r.ins) |-> <<l, SetToSeq(r.ins)[i], th>>]),
        !.decs = BagAddAll(@, [i \in DOMAIN r.decs |-> <<l, r.decs[i]>>])]

InitWith(C) ==
    /\ cfg \in C
    /\ loaders = [l \in Loaders |-> EmptyLoader]
    /\ tasks = [w \in Workers |-> <<>>]
    /\ hook = <<>>
    /\ frame = NoFrame
    /\ run = [t \in {"owner"} \cup Workers |-> Idle]
    /\ preload = FALSE
    /\ crashed = FALSE
    /\ hist = NoHist

Config(d, r, p, m, cb) ==
    [dir |-> d, rank |-> r, pool |-> p, mode |-> m, hasCb |-> cb, null |-> {}]

\* whether _handlers holds nullptr for the hash of category c
NullLoader(c) == Known(c) /\ JsonKeys[c] \in cfg.null

\* the owner thread is between calls: free to make one, or to drain the hook
OwnerFree ==
    /\ run["owner"] = Idle
    /\ ~(frame.th = "owner" /\ frame.pc \in {"scan", "sweep", "cat"})

NewFrame(th) == [NoFrame EXCEPT !.pc = "scan", !.th = th, !.entries = Len(Dir)]

(***************************************************************************)
(* The directory calls.                                                    *)
(***************************************************************************)
\* bool AssetManager::loadDirectory(json), entry
CallLoadDirectory ==
    /\ ~crashed /\ cfg.mode = "sync" /\ frame.pc = "none" /\ OwnerFree
    /\ frame' = NewFrame("owner")
    /\ UNCHANGED <<cfg, loaders, tasks, hook, run, preload, crashed, hist>>

\* void AssetManager::loadDirectoryAsync(json, callback), entry
CallLoadDirectoryAsync ==
    /\ ~crashed /\ cfg.mode = "async" /\ frame.pc = "none" /\ OwnerFree
    /\ frame' = NewFrame("owner")
    /\ UNCHANGED <<cfg, loaders, tasks, hook, run, preload, crashed, hist>>

\* void AssetManager::loadDirectoryAsync(directory, callback) with a file
\* that opens: the whole JSON call becomes a task of the manager's worker
CallLoadDirectoryAsyncPath ==
    /\ ~crashed /\ cfg.mode = "path" /\ frame.pc = "none" /\ OwnerFree
    /\ preload' = TRUE
    /\ tasks' = [tasks EXCEPT !["mgr"] = Append(@, [op |-> "dir"])]
    /\ frame' = [frame EXCEPT !.pc = "queued"]
    /\ UNCHANGED <<cfg, loaders, hook, run, crashed, hist>>

\* void AssetManager::loadDirectoryAsync(directory, callback) with a file
\* that does not open (reader == nullptr): _preload stays set; with a
\* callback the call reports ("", false) and returns, without one it goes on
\* to queue the task, which then reads through the null reader
CallLoadDirectoryAsyncPathMissing ==
    /\ ~crashed /\ cfg.mode = "nofile" /\ frame.pc = "none" /\ OwnerFree
    /\ preload' = TRUE
    /\ tasks' = IF cfg.hasCb THEN tasks
                ELSE [tasks EXCEPT !["mgr"] = Append(@, [op |-> "nodir"])]
    /\ frame' = [frame EXCEPT !.pc = IF cfg.hasCb THEN "failed" ELSE "queued"]
    /\ hist' = IF cfg.hasCb
               THEN [hist EXCEPT !.cbs = BagAdd(@, <<"manager", NoKey, FALSE, "owner">>)]
               ELSE hist
    /\ UNCHANGED <<cfg, loaders, hook, run, crashed>>

\* a count of every entry of the category
AmountAll(L, items) == Len(items)

\* the number of entries of a category that the loader does not contain
Amount(L, items) == Cardinality({i \in DOMAIN items : ~Verify(L, items[i].key)})

\* the pre-scan ("First, estimate the number of things to load"), one
\* category; handler->contains and handler->reserve are called without a
\* test of the handler, a null dereference when _handlers holds nullptr
PreScan ==
    /\ ~crashed /\ frame.pc = "scan"
    /\ LET c == Dir[frame.ii]
       IN  \E o \in (IF NullLoader(c.cat) THEN {"crash", "go"} ELSE {"go"}) :
             /\ crashed' = (o = "crash")
             /\ loaders' = IF Known(c.cat) /\ ~NullLoader(c.cat)
                           THEN [loaders EXCEPT ![JsonKeys[c.cat]] = Reserve(@, Amount(@, c.items))]
                           ELSE loaders
             /\ frame' = IF o = "crash" THEN frame
                         ELSE IF frame.ii < Len(Dir) THEN [frame EXCEPT !.ii = @ + 1]
                         ELSE [frame EXCEPT !.pc = "sweep", !.ii = 1]
    /\ UNCHANGED <<cfg, tasks, hook, run, preload, hist>>

\* a search that never moves the next rank
NextRankStuck(next, curr, r) == next

\* "We are looking for the NEXT available rank"
NextRank(next, curr, r) ==
    IF next = curr THEN r ELSE IF r < next THEN r ELSE next

\* an unknown category that is logged and not counted
AfterUnknownUncounted(f) ==
    [f EXCEPT !.ii = @ + 1, !.success = IF cfg.mode = "sync" THEN FALSE ELSE @]

\* a directory call that gives up at the first unknown category
AfterUnknownAborts(f) == [f EXCEPT !.pc = "done", !.success = FALSE]

\* the frame after a category whose key is not in _jsonKeys: the error is
\* logged, err++ and, in loadDirectory, success = false
AfterUnknown(f) ==
    [f EXCEPT !.err = @ + 1, !.ii = @ + 1,
              !.success = IF cfg.mode = "sync" THEN FALSE ELSE @]

\* one iteration of the for loop of the priority pass, up to the call of
\* readCategory
SweepCategory ==
    /\ ~crashed /\ frame.pc = "sweep" /\ frame.ii <= Len(Dir)
    /\ LET c == Dir[frame.ii]
       IN  frame' =
             IF ~Known(c.cat) THEN AfterUnknown(frame)
             ELSE IF Rank(c.cat) = frame.curr
             THEN [frame EXCEPT !.pc = "cat", !.jj = 1]
             ELSE IF Rank(c.cat) > frame.curr
             THEN [frame EXCEPT !.next = NextRank(@, frame.curr, Rank(c.cat)), !.ii = @ + 1]
             ELSE [frame EXCEPT !.ii = @ + 1]
    /\ hist' = IF Known(Dir[frame.ii].cat) /\ Rank(Dir[frame.ii].cat) = frame.curr
               THEN [hist EXCEPT !.cats = @ \cup {frame.ii}]
               ELSE hist
    /\ UNCHANGED <<cfg, loaders, tasks, hook, run, preload, crashed>>

\* an accumulation that drops the result of the load
AfterEntryForgets(f, s) ==
    IF f.jj < Len(Dir[f.ii].items) THEN [f EXCEPT !.jj = @ + 1]
    ELSE [f EXCEPT !.pc = "sweep", !.ii = @ + 1, !.jj = 1, !.entries = @ - 1]

\* a category whose entries are read again from the first
AfterEntryRepeats(f, s) ==
    IF f.jj < Len(Dir[f.ii].items) THEN [f EXCEPT !.jj = @ + 1, !.success = s]
    ELSE IF f.jj > 1 THEN [f EXCEPT !.jj = 1, !.success = s]
    ELSE [f EXCEPT !.pc = "sweep", !.ii = @ + 1, !.jj = 1, !.entries = @ - 1,
                   !.success = s]

\* the frame after entry jj of category ii was handed to its loader:
\* the next entry or, after the last, entries-- and the next category
AfterEntry(f, s) ==
    IF f.jj < Len(Dir[f.ii].items) THEN [f EXCEPT !.jj = @ + 1, !.success = s]
    ELSE [f EXCEPT !.pc = "sweep", !.ii = @ + 1, !.jj = 1, !.entries = @ - 1,
                   !.success = s]

\* what a null dereference can do
Outcomes(r) == IF r.ub THEN {"crash", "go"} ELSE {"go"}

\* the frame after readCategory(hash, json) found a null loader: the error
\* is logged and the category returns false
AfterNullLoader(f) ==
    [f EXCEPT !.pc = "sweep", !.ii = @ + 1, !.jj = 1, !.entries = @ - 1,
              !.success = FALSE]

\* readCategory(hash, json) with loader == nullptr
ReadCategoryNull ==
    /\ ~crashed /\ frame.pc = "cat" /\ cfg.mode = "sync"
    /\ NullLoader(Dir[frame.ii].cat)
    /\ frame' = AfterNullLoader(frame)
    /\ UNCHANGED <<cfg, loaders, tasks, hook, run, preload, crashed, hist>>

\* readCategory(hash, json): success = loader->load(child) && success
DispatchSync ==
    /\ ~crashed /\ frame.pc = "cat" /\ cfg.mode = "sync"
    /\ ~NullLoader(Dir[frame.ii].cat)
    /\ LET l == JsonKeys[Dir[frame.ii].cat]
           e == Dir[frame.ii].items[frame.jj]
           r == ReadSync(l, loaders[l], e, FALSE)
       IN  \E o \in Outcomes(r) :
             /\ crashed' = (o = "crash")
             /\ loaders' = IF o = "crash" THEN [loaders EXCEPT ![l] = Enqueue(@, e.key)]
                           ELSE [loaders EXCEPT ![l] = r.L]
             /\ frame' = IF o = "crash" THEN frame ELSE AfterEntry(frame, r.ok /\ frame.success)
             /\ hist' = IF o = "crash" THEN hist
                        ELSE [Recorded(hist, r, l, frame.th) EXCEPT
                                !.disp = @ \cup {<<frame.ii, frame.jj>>},
                                !.loads = @ \cup {<<frame.ii, frame.jj, r.ok>>}]
    /\ UNCHANGED <<cfg, tasks, hook, run, preload>>

\* a read that never takes the asynchronous branch
AsyncBranchNever(pool) == FALSE

\* if (_loader == nullptr || !async) { synchronous } else { _loader->addTask }
\* for a read with async = true
AsyncBranch(pool) == pool # "none"

\* readCategory(hash, json, callback): loader->loadAsync(child, callback),
\* that is read(json, callback, true) on the thread of the directory call
DispatchAsync ==
    /\ ~crashed /\ frame.pc = "cat" /\ cfg.mode # "sync"
    /\ LET l == JsonKeys[Dir[frame.ii].cat]
           e == Dir[frame.ii].items[frame.jj]
           r == ReadSync(l, loaders[l], e, cfg.hasCb)
           queued == ~ReadGuard(loaders[l], e.key) /\ AsyncBranch(cfg.pool[l])
       IN  \E o \in (IF queued THEN {"go"} ELSE Outcomes(r)) :
             /\ crashed' = (o = "crash")
             /\ tasks' = IF queued
                         THEN [tasks EXCEPT ![cfg.pool[l]] =
                                   Append(@, [op |-> "load", l |-> l, e |-> e])]
                         ELSE tasks
             /\ loaders' = IF queued THEN loaders
                           ELSE IF o = "crash" THEN [loaders EXCEPT ![l] = Enqueue(@, e.key)]
                           ELSE [loaders EXCEPT ![l] = r.L]
             /\ frame' = IF o = "crash" THEN frame ELSE AfterEntry(frame, frame.success)
             /\ hist' = IF o = "crash" THEN hist
                        ELSE [(IF queued THEN hist ELSE Recorded(hist, r, l, frame.th))
                                EXCEPT !.disp = @ \cup {<<frame.ii, frame.jj>>}]
    /\ UNCHANGED <<cfg, hook, run, preload>>

\* AssetManager::sync: a barrier task at the end of the manager's queue
SyncTask == [op |-> "sync"]

\* the end of a sweep of loadDirectory: curr = next, and the while test
SweepEndSync ==
    /\ ~crashed /\ frame.pc = "sweep" /\ frame.ii > Len(Dir) /\ cfg.mode = "sync"
    /\ frame' = IF frame.entries > frame.err
                THEN [frame EXCEPT !.curr = frame.next, !.ii = 1]
                ELSE [frame EXCEPT !.curr = frame.next, !.pc = "done"]
    /\ UNCHANGED <<cfg, loaders, tasks, hook, run, preload, crashed, hist>>

\* the end of a sweep of loadDirectoryAsync: if (entries != err) { curr = next;
\* sync(); }, the while test and, on exit, "One last sync"; on the manager's
\* worker the task then ends with _preload = false
SweepEndAsync ==
    /\ ~crashed /\ frame.pc = "sweep" /\ frame.ii > Len(Dir) /\ cfg.mode # "sync"
    /\ LET more == frame.entries # frame.err
           again == frame.entries > frame.err
           n == (IF more THEN 1 ELSE 0) + (IF again THEN 0 ELSE 1)
       IN  /\ frame' = [frame EXCEPT !.curr = IF more THEN frame.next ELSE @,
                                     !.ii = 1,
                                     !.pc = IF again THEN "sweep" ELSE "done"]
           /\ tasks' = [tasks EXCEPT !["mgr"] =
                           @ \o [i \in 1..n |-> SyncTask]]
           /\ hist' = [hist EXCEPT !.barriers = @ + n]
           /\ run' = IF ~again /\ frame.th = "mgr" THEN [run EXCEPT !["mgr"] = Idle] ELSE run
           /\ preload' = IF ~again /\ frame.th = "mgr" THEN FALSE ELSE preload
    /\ UNCHANGED <<cfg, loaders, hook, crashed>>

(***************************************************************************)
(* The thread pools.  ThreadPool is not part of the sources at hand: a     *)
(* pool runs its tasks in FIFO order, one at a time per worker.            *)
(***************************************************************************)
\* a worker takes the task at the head of its queue
WorkerTake(w) ==
    /\ ~crashed /\ run[w] = Idle /\ tasks[w] # <<>>
    /\ tasks' = [tasks EXCEPT ![w] = Tail(@)]
    /\ LET t == Head(tasks[w])
       IN  /\ run' = [run EXCEPT ![w] =
                        IF t.op = "load" THEN [op |-> "enq", l |-> t.l, e |-> t.e]
                        ELSE IF t.op = "sync" THEN [op |-> "poll", seen |-> {}]
                        ELSE [op |-> "dir"]]
           /\ frame' = IF t.op = "dir" THEN NewFrame(w) ELSE frame
           /\ crashed' = (t.op = "nodir")
    /\ UNCHANGED <<cfg, loaders, hook, preload, hist>>

\* whether the asynchronous branch of read dereferences a null node
\* (Scene2Loader::read: node->doLayout() right after build)
NullNode(l, e) == l = "scene2" /\ ~e.ok

\* _queue is a std::unordered_set that no lock guards: the emplace of a
\* worker's enqueue and the erase of the owner's materialize race when both
\* are under way on the same loader.  (The reads of the set, by the guard of
\* read and by inFlight() in the barrier, are taken at one instant: they see
\* the set before or after a write.)
Racing(l) ==
    \E w \in Workers :
        /\ run[w].op = "enq" /\ run[w].l = l
        /\ run["owner"].op = "erase" /\ run["owner"].l = l

\* what a racing update of the set can do: take effect, be lost, or bring
\* the process down
RaceOutcomes(l) == IF Racing(l) THEN {"go", "lost", "crash"} ELSE {"go"}

\* the task that the asynchronous branch of read queues: enqueue(key), the
\* preload, and the hand-over of materialize to Application::schedule
WorkerEnqueue(w) ==
    /\ ~crashed /\ run[w].op = "enq"
    /\ LET l == run[w].l
           e == run[w].e
       IN  /\ hist' = [hist EXCEPT
                         !.started = @ \cup {<<l, e.key>>},
                         !.decs = IF Decrements(loaders[l]) THEN BagAdd(@, <<l, e.key>>) ELSE @]
           /\ \E o \in RaceOutcomes(l) \cup (IF NullNode(l, e) THEN {"crash"} ELSE {}) :
                /\ loaders' = [loaders EXCEPT ![l] =
                                  IF o = "lost" THEN [Enqueue(@, e.key) EXCEPT !.queue = loaders[l].queue]
                                  ELSE Enqueue(@, e.key)]
                /\ crashed' = (o = "crash")
                /\ hook' = IF o = "crash" THEN hook ELSE Append(hook, [l |-> l, e |-> e])
                /\ run' = IF o = "crash" THEN run ELSE [run EXCEPT ![w] = Idle]
    /\ UNCHANGED <<cfg, tasks, frame, preload>>

\* complete = it->second->inFlight() == 0
PollComplete(L) == InFlight(L) = 0

\* the barrier task of AssetManager::sync, one loader of one pass: a pass
\* reads the attached loaders one after the other and stops at the first
\* that has keys in flight; the task ends after a pass that found none
Poll(w, l) ==
    /\ ~crashed /\ run[w].op = "poll" /\ l \notin run[w].seen
    /\ LET seen == run[w].seen \cup {l}
           over == PollComplete(loaders[l]) /\ seen = Loaders
       IN  /\ run' = [run EXCEPT ![w] =
                        IF ~PollComplete(loaders[l]) THEN [op |-> "poll", seen |-> {}]
                        ELSE IF over THEN Idle
                        ELSE [op |-> "poll", seen |-> seen]]
           /\ hist' = IF over THEN [hist EXCEPT !.passed = @ + 1] ELSE hist
    /\ UNCHANGED <<cfg, loaders, tasks, hook, frame, preload, crashed>>

(***************************************************************************)
(* The owner thread's hook.  Application::schedule is not part of the      *)
(* sources at hand: a scheduled closure runs once, on the owner thread,    *)
(* between the owner's own calls.                                          *)
(***************************************************************************)
RemoveAt(q, i) == [j \in 1..(Len(q) - 1) |-> IF j < i THEN q[j] ELSE q[j + 1]]

\* a scheduled materialize, up to its callback
MaterializeBegin(i) ==
    /\ ~crashed /\ OwnerFree /\ i \in DOMAIN hook
    /\ LET l == hook[i].l
           e == hook[i].e
           m == Materialize(l, loaders[l], e, cfg.hasCb)
       IN  /\ loaders' = [loaders EXCEPT ![l] = m.L]
           /\ hist' = Recorded(hist, m, l, "owner")
           /\ run' = [run EXCEPT !["owner"] = [op |-> "erase", l |-> l, e |-> e]]
    /\ hook' = RemoveAt(hook, i)
    /\ UNCHANGED <<cfg, tasks, frame, preload, crashed>>

\* a scheduled materialize, its _queue.erase(key)
MaterializeEnd ==
    /\ ~crashed /\ run["owner"].op = "erase"
    /\ LET l == run["owner"].l
           e == run["owner"].e
       IN  /\ hist' = [hist EXCEPT !.matd = @ \cup {<<l, e.key>>}]
           /\ \E o \in RaceOutcomes(l) :
                /\ loaders' = IF o = "lost" THEN loaders
                              ELSE [loaders EXCEPT ![l] = EraseKey(@, MatKey(l, e))]
                /\ crashed' = (o = "crash")
                /\ run' = IF o = "crash" THEN run ELSE [run EXCEPT !["owner"] = Idle]
    /\ UNCHANGED <<cfg, tasks, hook, frame, preload>>

(***************************************************************************)
(* unloadDirectory.                                                        *)
(***************************************************************************)
\* an accumulation that keeps one result and drops the other
AccumulateOne(r, s) == r

\* success = <result> && success
Accumulate(r, s) == r /\ s

RECURSIVE PurgeCategory(_, _)
\* AssetManager::purgeCategory: success = loader->unload(child) && success;
\* calls are the unloads made, as <<key, result>>
PurgeCategory(L, items) ==
    IF items = <<>> THEN [L |-> L, ok |-> TRUE, calls |-> <<>>]
    ELSE LET first == PurgeJson(L, Head(items))
             rest == PurgeCategory(first.L, Tail(items))
         IN  [L |-> rest.L, ok |-> Accumulate(first.ok, rest.ok),
              calls |-> <<<<Head(items).key, first.ok>>>> \o rest.calls]

RECURSIVE UnloadFrom(_, _, _)
\* the loop of unloadDirectory over the categories d that are left, with the
\* success so far; calls are the unloads made, as <<loader, key, result>>
UnloadFrom(ls, d, ok) ==
    IF d = <<>> THEN [loaders |-> ls, ok |-> ok, calls |-> <<>>]
    ELSE IF ~Known(Head(d).cat) \/ NullLoader(Head(d).cat)
         THEN UnloadFrom(ls, Tail(d), FALSE)
    ELSE LET l == JsonKeys[Head(d).cat]
             p == PurgeCategory(ls[l], Head(d).items)
             u == UnloadFrom([ls EXCEPT ![l] = p.L], Tail(d), Accumulate(p.ok, ok))
         IN  [u EXCEPT !.calls =
                 [i \in DOMAIN p.calls |-> <<l, p.calls[i][1], p.calls[i][2]>>] \o @]

\* bool AssetManager::unloadDirectory(json), called once loadDirectory returned
UnloadDirectory ==
    /\ ~crashed /\ cfg.mode = "sync" /\ frame.pc = "done" /\ OwnerFree
    /\ LET u == UnloadFrom(loaders, Dir, TRUE)
       IN  /\ loaders' = u.loaders
           /\ hist' = [hist EXCEPT !.unload = IF u.ok THEN "true" ELSE "false",
                                   !.unloads = u.calls]
    /\ frame' = [frame EXCEPT !.pc = "unloaded"]
    /\ UNCHANGED <<cfg, tasks, hook, run, preload, crashed>>

(***************************************************************************)
(* Specifications.                                                         *)
(***************************************************************************)
AllOn(p) == [l \in Loaders |-> p]

\* the priorities up to n that matter to directory d: a loader that d does
\* not name keeps priority 0
RanksFor(d, n) ==
    {r \in [Loaders -> 0..n] : \A l \in Loaders :
        (\A i \in DOMAIN d : Known(d[i].cat) => JsonKeys[d[i].cat] # l) => r[l] = 0}

\* the runs over directories ds with priorities up to n, pools ps, calls ms
\* and callbacks cbs
Configs(ds, n, ps, ms, cbs) ==
    UNION {{Config(d, r, p, m, cb) : r \in RanksFor(d, n), p \in ps, m \in ms, cb \in cbs} :
              d \in ds}

SyncConfigs ==
    Configs(ScheduleDirs \cup LoaderDirs \cup UnknownDirs, MaxRank, {AllOn("mgr")},
            {"sync"}, {FALSE})

InitSync == InitWith(SyncConfigs)

NextSync ==
    \/ CallLoadDirectory
    \/ PreScan
    \/ SweepCategory
    \/ DispatchSync
    \/ SweepEndSync
    \/ UnloadDirectory

SpecSync == InitSync /\ [][NextSync]_vars

\* loadDirectory and loadDirectoryAsync on the directories that exercise the
\* scheduler, with the thread of the call running it to its end: nothing in
\* the loop waits
LoopDirs == {d \in ScheduleDirs : \A i \in DOMAIN d : d[i].items = <<Plain("a")>>}

LoopConfigs ==
    Configs(LoopDirs, MaxRank, {AllOn("mgr")}, {"sync"}, {FALSE})
    \cup Configs(LoopDirs, MaxRank, {AllOn("mgr")}, {"async"}, {TRUE})

InitLoop == InitWith(LoopConfigs)

Loop ==
    \/ PreScan
    \/ SweepCategory
    \/ DispatchSync
    \/ DispatchAsync
    \/ SweepEndSync
    \/ SweepEndAsync

NextLoop ==
    \/ CallLoadDirectory
    \/ CallLoadDirectoryAsync
    \/ Loop
    \/ WorkerTake("mgr")
    \/ WorkerEnqueue("mgr")
    \/ \E l \in Loaders : Poll("mgr", l)
    \/ \E i \in 1..Len(hook) : MaterializeBegin(i)
    \/ MaterializeEnd

FairLoop == InitLoop /\ [][NextLoop]_vars /\ WF_vars(Loop)

\* loadDirectoryAsync, on a JSON directory or on a path, with every loader
\* on the manager's worker
AsyncConfigs ==
    Configs(ScheduleDirs \cup LoaderDirs \cup RankedDirs, MaxRank, {AllOn("mgr")},
            {"async", "path"}, {TRUE})

InitAsync == InitWith(AsyncConfigs)

NextAsync ==
    \/ CallLoadDirectoryAsync
    \/ CallLoadDirectoryAsyncPath
    \/ PreScan
    \/ SweepCategory
    \/ DispatchAsync
    \/ SweepEndAsync
    \/ WorkerTake("mgr")
    \/ WorkerEnqueue("mgr")
    \/ \E l \in Loaders : Poll("mgr", l)
    \/ \E i \in 1..Len(hook) : MaterializeBegin(i)
    \/ MaterializeEnd

SpecAsync == InitAsync /\ [][NextAsync]_vars

\* loadDirectoryAsync on a JSON directory of one category, with every thread
\* scheduled fairly: the call runs to its end, the manager's worker takes and
\* runs its tasks, and the owner thread runs the closures of its hook
BarrierConfigs == Configs(LoaderDirs, 0, {AllOn("mgr")}, {"async"}, {TRUE})

InitBarrier == InitWith(BarrierConfigs)

CallSteps == PreScan \/ SweepCategory \/ DispatchAsync \/ SweepEndAsync

WorkerSteps == WorkerTake("mgr") \/ WorkerEnqueue("mgr") \/ \E l \in Loaders : Poll("mgr", l)

HookSteps == (\E i \in 1..Len(hook) : MaterializeBegin(i)) \/ MaterializeEnd

NextBarrier ==
    \/ CallLoadDirectoryAsync
    \/ CallSteps
    \/ WorkerSteps
    \/ HookSteps

FairBarrier ==
    /\ InitBarrier /\ [][NextBarrier]_vars
    /\ WF_vars(CallSteps) /\ WF_vars(WorkerSteps) /\ WF_vars(HookSteps)

\* the pools of the loaders that directory d names: the others keep the
\* manager's
PoolsFor(d, ps) ==
    {p \in [Loaders -> ps] : \A l \in Loaders :
        (\A i \in DOMAIN d : Known(d[i].cat) => JsonKeys[d[i].cat] # l) => p[l] = "mgr"}

\* loadDirectoryAsync with loaders on the manager's worker, on a pool of
\* their own, or without a pool
PoolConfigs ==
    UNION {Configs({d}, MaxRank, PoolsFor(d, {"mgr", "own", "none"}), {"async", "path"}, {TRUE}) :
              d \in LoaderDirs}

InitPools == InitWith(PoolConfigs)

NextPools ==
    \/ CallLoadDirectoryAsync
    \/ CallLoadDirectoryAsyncPath
    \/ PreScan
    \/ SweepCategory
    \/ DispatchAsync
    \/ SweepEndAsync
    \/ \E w \in Workers : WorkerTake(w)
    \/ \E w \in Workers : WorkerEnqueue(w)
    \/ \E l \in Loaders : Poll("mgr", l)
    \/ \E i \in 1..Len(hook) : MaterializeBegin(i)
    \/ MaterializeEnd

SpecPools == InitPools /\ [][NextPools]_vars

\* calls on a loader by itself: reserve and enqueue, in any order
ApiKeys == {"a", "b", "d"}

ApiConfigs == {Config(<<>>, AllOn(0), AllOn("mgr"), "api", FALSE)}

InitLoader == InitWith(ApiConfigs)

\* void BaseLoader::reserve(size_t amount)
CallReserve(l, n) ==
    /\ ~crashed /\ cfg.mode = "api" /\ Len(hist.log) < MaxCalls
    /\ loaders' = [loaders EXCEPT ![l] = Reserve(@, n)]
    /\ hist' = [hist EXCEPT !.log = Append(@, <<"reserve", l, n>>)]
    /\ UNCHANGED <<cfg, tasks, hook, frame, run, preload, crashed>>

\* void Loader::enqueue(const std::string key)
CallEnqueue(l, k) ==
    /\ ~crashed /\ cfg.mode = "api" /\ Len(hist.log) < MaxCalls
    /\ loaders' = [loaders EXCEPT ![l] = Enqueue(@, k)]
    /\ hist' = [hist EXCEPT !.log = Append(@, <<"enqueue", l, k>>)]
    /\ UNCHANGED <<cfg, tasks, hook, frame, run, preload, crashed>>

\* the keys that are loaded and unloaded directly
LoadKeys == {"a", "b"}

\* bool BaseLoader::load(json), that is read(json, nullptr, false)
CallLoad(l, e) ==
    /\ ~crashed /\ cfg.mode = "api" /\ Len(hist.log) < MaxCalls
    /\ LET r == ReadSync(l, loaders[l], e, FALSE)
       IN  \E o \in Outcomes(r) :
             /\ crashed' = (o = "crash")
             /\ loaders' = IF o = "crash" THEN [loaders EXCEPT ![l] = Enqueue(@, e.key)]
                           ELSE [loaders EXCEPT ![l] = r.L]
             /\ hist' = [hist EXCEPT !.log = Append(@, <<"load", l, e.key, r.ok>>)]
    /\ UNCHANGED <<cfg, tasks, hook, frame, run, preload>>

\* bool BaseLoader::unload(key), that is purgeKey(key)
CallUnload(l, k) ==
    /\ ~crashed /\ cfg.mode = "api" /\ Len(hist.log) < MaxCalls
    /\ LET p == PurgeKey(loaders[l], k)
       IN  /\ loaders' = [loaders EXCEPT ![l] = p.L]
           /\ hist' = [hist EXCEPT !.log = Append(@, <<"unload", l, k, p.ok>>)]
    /\ UNCHANGED <<cfg, tasks, hook, frame, run, preload, crashed>>

NextLoader ==
    \/ \E l \in Loaders : \E n \in 0..MaxReserve : CallReserve(l, n)
    \/ \E l \in Loaders : \E k \in ApiKeys : CallEnqueue(l, k)
    \/ \E l \in Loaders : \E k \in LoadKeys : CallLoad(l, Plain(k))
    \/ \E l \in Loaders : \E k \in LoadKeys : CallLoad(l, Broken(k))
    \/ \E l \in Loaders : \E k \in LoadKeys : CallUnload(l, k)

SpecLoader == InitLoader /\ [][NextLoader]_vars

\* the entries asked of a loader directly
DirectEntries == {Plain("a"), Plain("b"), Broken("x")}

DirectConfigs == {Config(<<>>, AllOn(0), AllOn("mgr"), "direct", TRUE)}

InitDirect == InitWith(DirectConfigs)

\* void BaseLoader::loadAsync(json, callback), that is read(json, callback,
\* true), called by the owner thread on a loader
CallLoadAsync(l, e) ==
    /\ ~crashed /\ cfg.mode = "direct" /\ OwnerFree /\ Len(hist.log) < MaxLoads
    /\ LET r == ReadSync(l, loaders[l], e, cfg.hasCb)
           fresh == ~ReadGuard(loaders[l], e.key)
           queued == fresh /\ AsyncBranch(cfg.pool[l])
       IN  \E o \in (IF queued THEN {"go"} ELSE Outcomes(r)) :
             /\ crashed' = (o = "crash")
             /\ tasks' = IF queued
                         THEN [tasks EXCEPT ![cfg.pool[l]] =
                                   Append(@, [op |-> "load", l |-> l, e |-> e])]
                         ELSE tasks
             /\ loaders' = IF queued THEN loaders
                           ELSE IF o = "crash" THEN [loaders EXCEPT ![l] = Enqueue(@, e.key)]
                           ELSE [loaders EXCEPT ![l] = r.L]
             /\ hist' = [(IF queued \/ o = "crash" THEN hist ELSE Recorded(hist, r, l, "owner"))
                           EXCEPT !.log = Append(@, <<"loadAsync", l, e.key, fresh>>)]
    /\ UNCHANGED <<cfg, hook, frame, run, preload>>

NextDirect ==
    \/ \E l \in Loaders : \E e \in DirectEntries : CallLoadAsync(l, e)
    \/ WorkerTake("mgr")
    \/ WorkerEnqueue("mgr")
    \/ \E i \in 1..Len(hook) : MaterializeBegin(i)
    \/ MaterializeEnd

SpecDirect == InitDirect /\ [][NextDirect]_vars

\* size_t AssetManager::loadCount() const
RECURSIVE MgrLoadCount(_, _)
MgrLoadCount(ls, S) ==
    IF S = {} THEN 0
    ELSE LET l == CHOOSE x \in S : TRUE
         IN  LoadCount(ls[l]) + MgrLoadCount(ls, S \ {l})

\* size_t AssetManager::waitCount() const, before the _preload term
RECURSIVE SumWaitCount(_, _)
SumWaitCount(ls, S) ==
    IF S = {} THEN 0
    ELSE LET l == CHOOSE x \in S : TRUE
         IN  WaitCount(ls[l]) + SumWaitCount(ls, S \ {l})

\* return _preload ? result+1 : result
MgrWaitCount(ls, p) == SumWaitCount(ls, Loaders) + (IF p THEN 1 ELSE 0)

\* the share of the assets that are still waiting
ProgressOfWaiting(loaded, waiting) ==
    IF loaded + waiting = 0 THEN <<0, 1>> ELSE <<waiting, loaded + waiting>>

\* float BaseLoader::progress(): loadCount()/size as the fraction
\* <<numerator, denominator>>, and 0 when size is 0
Progress(loaded, waiting) ==
    IF loaded + waiting = 0 THEN <<0, 1>> ELSE <<loaded, loaded + waiting>>

\* the progress of every loader and of the manager, read by the owner
Observation ==
    [t \in Loaders \cup {"manager"} |->
        IF t = "manager"
        THEN Progress(MgrLoadCount(loaders, Loaders), MgrWaitCount(loaders, preload))
        ELSE Progress(LoadCount(loaders[t]), WaitCount(loaders[t]))]

\* the owner reads the progress between its calls, once a directory load
\* has begun: the history keeps the last two readings
Observe ==
    /\ ~crashed /\ OwnerFree /\ frame.pc # "none"
    /\ IF hist.obs = <<>> THEN TRUE ELSE hist.obs[Len(hist.obs)] # Observation
    /\ hist' = [hist EXCEPT !.obs = IF @ = <<>> THEN <<Observation>>
                                    ELSE <<@[Len(@)], Observation>>]
    /\ UNCHANGED <<cfg, loaders, tasks, hook, frame, run, preload, crashed>>

\* a loader that holds an asset of an earlier load
Preloaded == [EmptyLoader EXCEPT !.assets = {"p"}]

ProgressDirs == DirsOver({"fonts"}, MaxItems) \cup DirsOver({"fonts", "scene2s"}, 1)

\* directory loads of every kind, the path-based one with a file that opens
\* or not and with or without a callback, on loaders that are empty or not
ProgressConfigs ==
    Configs(ProgressDirs, 1, {AllOn("mgr")}, {"sync"}, {FALSE})
    \cup Configs(ProgressDirs, 1, {AllOn("mgr")}, {"async", "path", "nofile"}, BOOLEAN)

InitProgress ==
    /\ cfg \in ProgressConfigs
    /\ \E S \in {{}, {"font"}, {"widget"}} :
          loaders = [l \in Loaders |-> IF l \in S THEN Preloaded ELSE EmptyLoader]
    /\ tasks = [w \in Workers |-> <<>>]
    /\ hook = <<>>
    /\ frame = NoFrame
    /\ run = [t \in {"owner"} \cup Workers |-> Idle]
    /\ preload = FALSE
    /\ crashed = FALSE
    /\ hist = NoHist

NextProgress ==
    \/ CallLoadDirectory
    \/ CallLoadDirectoryAsync
    \/ CallLoadDirectoryAsyncPath
    \/ CallLoadDirectoryAsyncPathMissing
    \/ PreScan
    \/ SweepCategory
    \/ DispatchSync
    \/ DispatchAsync
    \/ SweepEndSync
    \/ SweepEndAsync
    \/ WorkerTake("mgr")
    \/ WorkerEnqueue("mgr")
    \/ \E l \in Loaders : Poll("mgr", l)
    \/ \E i \in 1..Len(hook) : MaterializeBegin(i)
    \/ MaterializeEnd
    \/ Observe

SpecProgress == InitProgress /\ [][NextProgress]_vars

\* a loader that holds the asset a of an earlier load
Holding == [EmptyLoader EXCEPT !.assets = {"a"}]

\* directories of fonts alone, and of fonts and widgets of one entry each
ReloadDirs == DirsOver({"fonts"}, MaxItems) \cup DirsOver({"fonts", "widgets"}, 1)

\* loadDirectory and loadDirectoryAsync on loaders that may hold a key of the
\* directory already
ReloadConfigs ==
    Configs(ReloadDirs, MaxRank, {AllOn("mgr")}, {"sync"}, {FALSE})
    \cup Configs(ReloadDirs, MaxRank, {AllOn("mgr")}, {"async"}, {TRUE})

InitReload ==
    /\ cfg \in ReloadConfigs
    /\ \E S \in SUBSET {"font", "widget"} :
          loaders = [l \in Loaders |-> IF l \in S THEN Holding ELSE EmptyLoader]
    /\ tasks = [w \in Workers |-> <<>>]
    /\ hook = <<>>
    /\ frame = NoFrame
    /\ run = [t \in {"owner"} \cup Workers |-> Idle]
    /\ preload = FALSE
    /\ crashed = FALSE
    /\ hist = NoHist

SpecReload == InitReload /\ [][NextLoop]_vars

\* loadDirectory on a manager whose loader table holds nullptr for the font
\* loader, on directories that name the font category
NullDirs == DirsOver({"fonts"}, MaxItems) \cup DirsOver({"fonts", "widgets"}, 1)

NullConfigs ==
    {[c EXCEPT !.null = {"font"}] :
        c \in Configs(NullDirs, MaxRank, {AllOn("mgr")}, {"sync"}, {FALSE})}

InitNull == InitWith(NullConfigs)

NextNull ==
    \/ CallLoadDirectory
    \/ PreScan
    \/ SweepCategory
    \/ ReadCategoryNull
    \/ DispatchSync
    \/ SweepEndSync
    \/ UnloadDirectory

SpecNull == InitNull /\ [][NextNull]_vars

\* an unloadAll that resets the whole loader
UnloadAllResets(L) == EmptyLoader

\* void Loader::unloadAll(): _assets.clear()
UnloadAll(L) == [L EXCEPT !.assets = {}]

\* Loader::keys
Keys(L) == L.assets

\* unloadAll() called by the owner thread on a loader, between its other calls
CallUnloadAll(l) ==
    /\ ~crashed /\ cfg.mode = "direct" /\ OwnerFree /\ Len(hist.log) <= MaxLoads
    /\ loaders' = [loaders EXCEPT ![l] = UnloadAll(@)]
    /\ hist' = [hist EXCEPT !.log = Append(@, <<"unloadAll", l>>)]
    /\ UNCHANGED <<cfg, tasks, hook, frame, run, preload, crashed>>

\* loaders that are fresh, or on which reserve(MaxReserve) was called
InitUnloadAll ==
    /\ cfg \in DirectConfigs
    /\ \E n \in {0, MaxReserve} : loaders = [l \in Loaders |-> Reserve(EmptyLoader, n)]
    /\ tasks = [w \in Workers |-> <<>>]
    /\ hook = <<>>
    /\ frame = NoFrame
    /\ run = [t \in {"owner"} \cup Workers |-> Idle]
    /\ preload = FALSE
    /\ crashed = FALSE
    /\ hist = NoHist

NextUnloadAll ==
    \/ \E l \in Loaders : \E e \in DirectEntries : CallLoadAsync(l, e)
    \/ \E l \in Loaders : CallUnloadAll(l)
    \/ WorkerTake("mgr")
    \/ WorkerEnqueue("mgr")
    \/ \E i \in 1..Len(hook) : MaterializeBegin(i)
    \/ MaterializeEnd

SpecUnloadAll == InitUnloadAll /\ [][NextUnloadAll]_vars

(***************************************************************************)
(* WidgetLoader::materialize as the owner's hook runs it, step by step:    *)
(* the store of the widget, one load per dependency, the callback, and     *)
(* last the _queue.erase(key) of MaterializeEnd.                           *)
(***************************************************************************)
\* a load that does nothing
LoadNothing(l, L, e) == Result(L, FALSE, <<>>, {}, <<>>, FALSE)

\* bool BaseLoader::load(json): read(json, nullptr, false)
Load(l, L, e) == ReadSync(l, L, e, FALSE)

\* if (widget != nullptr) { _assets[key] = widget; ... "dependencies" }
WidgetStore(i) ==
    /\ ~crashed /\ OwnerFree /\ i \in DOMAIN hook /\ hook[i].l = "widget"
    /\ LET e == hook[i].e
       IN  /\ loaders' = IF e.ok THEN [loaders EXCEPT !["widget"].assets = @ \cup {e.key}]
                         ELSE loaders
           /\ hist' = IF e.ok THEN [hist EXCEPT !.ins = BagAdd(@, <<"widget", e.key, "owner">>)]
                      ELSE hist
           /\ run' = [run EXCEPT !["owner"] =
                        [op |-> "deps", l |-> "widget", e |-> e,
                         rest |-> IF e.ok THEN e.deps ELSE <<>>]]
    /\ hook' = RemoveAt(hook, i)
    /\ UNCHANGED <<cfg, tasks, frame, preload, crashed>>

\* one pass of the loop over "dependencies": load(child)
WidgetDependency ==
    /\ ~crashed /\ run["owner"].op = "deps" /\ run["owner"].rest # <<>>
    /\ LET r == Load("widget", loaders["widget"], Plain(Head(run["owner"].rest)))
       IN  /\ loaders' = [loaders EXCEPT !["widget"] = r.L]
           /\ hist' = Recorded(hist, r, "widget", "owner")
    /\ run' = [run EXCEPT !["owner"].rest = Tail(@)]
    /\ UNCHANGED <<cfg, tasks, hook, frame, preload, crashed>>

\* if (callback != nullptr) { callback(key,success); }
WidgetCallback ==
    /\ ~crashed /\ run["owner"].op = "deps" /\ run["owner"].rest = <<>>
    /\ LET e == run["owner"].e
       IN  /\ hist' = IF cfg.hasCb
                      THEN [hist EXCEPT !.cbs = BagAdd(@, <<"widget", e.key, e.ok, "owner">>)]
                      ELSE hist
           /\ run' = [run EXCEPT !["owner"] = [op |-> "erase", l |-> "widget", e |-> e]]
    /\ UNCHANGED <<cfg, loaders, tasks, hook, frame, preload, crashed>>

\* the keys that a widget names as dependencies: another widget, or itself
DepKeys == {"b", "d"}

\* directories of one widget
WidgetDirs ==
    {<<Category("widgets", <<e>>)>> :
        e \in {Broken("x")} \cup {Entry("b", TRUE, <<>>, ds) : ds \in SeqsUpTo(DepKeys, MaxItems)}}

WidgetConfigs == Configs(WidgetDirs, MaxRank, {AllOn("mgr")}, {"async"}, BOOLEAN)

InitWidget == InitWith(WidgetConfigs)

NextWidget ==
    \/ CallLoadDirectoryAsync
    \/ PreScan
    \/ SweepCategory
    \/ DispatchAsync
    \/ SweepEndAsync
    \/ WorkerTake("mgr")
    \/ WorkerEnqueue("mgr")
    \/ \E l \in Loaders : Poll("mgr", l)
    \/ \E i \in 1..Len(hook) : WidgetStore(i)
    \/ WidgetDependency
    \/ WidgetCallback
    \/ MaterializeEnd

SpecWidget == InitWidget /\ [][NextWidget]_vars

(***************************************************************************)
(* Properties.                                                             *)
(***************************************************************************)
LoaderOf(i) == JsonKeys[Dir[i].cat]

\* the categories of the directory that have a loader
Registered == {i \in DOMAIN Dir : Known(Dir[i].cat)}

\* those of a priority numerically smaller than r
Below(r) == {i \in Registered : Rank(Dir[i].cat) < r}

\* C1: in loadDirectoryAsync with every loader on the manager's worker, when
\* the load task of an asset of rank r has started (its enqueue), every asset
\* of every category of a smaller rank has been materialized and is out of
\* its loader's in-flight set.
C1_StartsAfterLowerRanks ==
    \A s \in hist.started : \A i \in Below(cfg.rank[s[1]]) :
        \A j \in DOMAIN Dir[i].items :
            /\ <<LoaderOf(i), Dir[i].items[j].key>> \in hist.matd
            /\ Dir[i].items[j].key \notin loaders[LoaderOf(i)].queue

\* C2: in loadDirectory, when a category of rank r is dispatched, every
\* registered category of a smaller rank has been dispatched entirely and its
\* loader has no key in flight.
C2_DispatchInRankOrder ==
    frame.pc = "cat" =>
        \A i \in Below(Rank(Dir[frame.ii].cat)) :
            /\ \A j \in DOMAIN Dir[i].items : <<i, j>> \in hist.disp
            /\ loaders[LoaderOf(i)].queue = {}

\* C3: when the directory call has finished dispatching, every entry of every
\* registered category was dispatched, whatever unknown categories stand
\* next to them.
C3_RegisteredAllDispatched ==
    frame.pc \in {"done", "unloaded"} =>
        \A i \in Registered : \A j \in DOMAIN Dir[i].items : <<i, j>> \in hist.disp

\* C4: a read that failed and has finished leaves its key out of the loaded
\* table and out of the in-flight set, for each of the three loaders.
C4_FailedKeyLeaves ==
    \A p \in hist.disp :
        LET e == Dir[p[1]].items[p[2]]
            L == loaders[LoaderOf(p[1])]
        IN  ~e.ok => e.key \notin L.assets /\ e.key \notin L.queue

\* C5: asynchronous reads of one key, with no unload between them, insert
\* the asset once, invoke the callback once and decrement the reserved
\* counter at most once.
C5_MaterializedOnce ==
    /\ \A x \in BagToSet(hist.ins) : CopiesIn(x, hist.ins) <= 1
    /\ \A x \in BagToSet(hist.cbs) : CopiesIn(x, hist.cbs) <= 1
    /\ \A x \in BagToSet(hist.decs) : CopiesIn(x, hist.decs) <= 1

\* C6: a synchronous read of a key that is in the loaded table or in the
\* in-flight set returns false (the directory's success turns false), invokes
\* no callback and leaves the table, the in-flight set and the reserved
\* counter of every loader as they were.
C6_GuardedReadChangesNothing ==
    [][(/\ DispatchSync
        /\ LET k == Dir[frame.ii].items[frame.jj].key
               L == loaders[LoaderOf(frame.ii)]
           IN  k \in L.assets \/ k \in L.queue)
       => (/\ loaders' = loaders
           /\ hist'.cbs = hist.cbs
           /\ frame'.success = FALSE
           /\ crashed' = FALSE)]_vars

\* a second entry of a key was dispatched when the first had been loaded, and
\* the read returned false
C6_GuardedReadSeen ==
    \E p \in hist.disp :
        /\ p[2] = 2
        /\ Dir[p[1]].items[2].key = Dir[p[1]].items[1].key
        /\ Dir[p[1]].items[2].key \in loaders[LoaderOf(p[1])].assets
        /\ frame.success = FALSE

\* C7: once loadDirectoryAsync has queued its last barrier and every barrier
\* has finished, no loader has a key in flight and every asset whose load
\* task ran has been materialized.
C7_FinalBarrierMeansDone ==
    (frame.pc = "done" /\ hist.passed = hist.barriers) =>
        /\ \A l \in Loaders : loaders[l].queue = {}
        /\ hist.started \subseteq hist.matd

\* C8: every insertion into a loader's table is made by the owner thread,
\* whichever loadDirectoryAsync was called and whether or not the loader has
\* a thread pool.
C8_TableWrittenByOwner ==
    \A x \in BagToSet(hist.ins) : x[3] = "owner"

\* C9: the enqueue of a worker task and the erase of materialize on the owner
\* thread are never under way on the same loader at the same time.
C9_ExclusiveAccess ==
    \A l \in Loaders : ~Racing(l)

\* C10: after loadDirectory(d) and unloadDirectory(d), from empty loaders,
\* every loader is back to loadCount() == 0.
C10_RoundTripEmpties ==
    frame.pc = "unloaded" => \A l \in Loaders : LoadCount(loaders[l]) = 0

\* C11: loadDirectory returns true exactly when every category key of the
\* directory has a loader and every load it called returned true.
C11_ResultIsConjunction ==
    frame.pc \in {"done", "unloaded"} =>
        (frame.success <=>
            /\ \A i \in DOMAIN Dir : Known(Dir[i].cat)
            /\ \A x \in hist.loads : x[3])

\* loadDirectory returned false for a directory of registered categories in
\* which one load failed and another succeeded
C11_ReturnedSeen ==
    /\ frame.pc = "done"
    /\ Len(Dir) >= 2
    /\ \A i \in DOMAIN Dir : Known(Dir[i].cat)
    /\ \E x \in hist.loads : ~x[3]
    /\ \E x \in hist.loads : x[3]
    /\ ~frame.success

\* the log ends with reserve(a), reserve(b) on one loader
TwoReserves ==
    /\ Len(hist.log) >= 2
    /\ hist.log[Len(hist.log) - 1][1] = "reserve"
    /\ hist.log[Len(hist.log)][1] = "reserve"
    /\ hist.log[Len(hist.log) - 1][2] = hist.log[Len(hist.log)][2]

\* C12 (as the code has it): reserve(amount) sets the reserved counter:
\* after reserve(a) followed by reserve(b) with no enqueue in between, the
\* reserved count is b.
C12_ReserveSets ==
    TwoReserves =>
        loaders[hist.log[Len(hist.log)][2]].reserved = hist.log[Len(hist.log)][3]

\* C12 (as the specification has it): reserve(amount) adds to the reserved
\* counter: after reserve(a) followed by reserve(b) the reserved count is
\* a + b.
C12_ReserveAdds ==
    TwoReserves =>
        loaders[hist.log[Len(hist.log)][2]].reserved =
            hist.log[Len(hist.log) - 1][3] + hist.log[Len(hist.log)][3]

\* reserve(a) then reserve(b) were called, both amounts positive
C12_TwoReservesSeen ==
    /\ TwoReserves
    /\ hist.log[Len(hist.log) - 1][3] > 0
    /\ hist.log[Len(hist.log)][3] > 0

Max(a, b) == IF a >= b THEN a ELSE b

\* the log is reserve(n) and then enqueues of distinct keys, all on loader l
ReserveThenEnqueues(l) ==
    /\ Len(hist.log) >= 1
    /\ hist.log[1][1] = "reserve" /\ hist.log[1][2] = l
    /\ \A i \in 2..Len(hist.log) : hist.log[i][1] = "enqueue" /\ hist.log[i][2] = l
    /\ \A i, j \in 2..Len(hist.log) : i # j => hist.log[i][3] # hist.log[j][3]

\* C13: after reserve(n) and k enqueues of distinct fresh keys, reserved is
\* max(n - k, 0) and waitCount() is max(n, k); reserved is never below zero.
C13_ReservedCountsDown ==
    /\ \A l \in Loaders : loaders[l].reserved >= 0
    /\ \A l \in Loaders :
          ReserveThenEnqueues(l) =>
              /\ loaders[l].reserved = Max(hist.log[1][3] - (Len(hist.log) - 1), 0)
              /\ WaitCount(loaders[l]) = Max(hist.log[1][3], Len(hist.log) - 1)

\* reserve(1) was followed by two enqueues: more enqueues than reserved
C13_MoreEnqueuesSeen ==
    \E l \in Loaders :
        /\ ReserveThenEnqueues(l)
        /\ hist.log[1][3] = 1
        /\ Len(hist.log) = 3

\* a/b >= c/d for fractions with positive denominators
AtLeast(x, y) == x[1] * y[2] >= y[1] * x[2]

HeldBefore == {l \in Loaders : "p" \in loaders[l].assets}

Reading == cfg.mode = "path" /\ frame.pc \in {"queued", "scan", "sweep", "cat"}

\* C15: the manager's waitCount() is the sum of the loaders' waitCount() plus
\* one exactly while a path-based loadDirectoryAsync is reading its file, and
\* the plain sum once the call failed to open the file or finished
C15_PreloadOnlyWhileReading ==
    ~crashed =>
        MgrWaitCount(loaders, preload) =
            SumWaitCount(loaders, Loaders) + (IF Reading THEN 1 ELSE 0)

\* C16: when loadDirectoryAsync(path) cannot open the file, the callback, if
\* there is one, is invoked exactly once, with the empty key and failure; no
\* task is queued and no loader changes, with or without a callback
C16_FailedOpenOnlyReports ==
    (cfg.mode = "nofile" /\ frame.pc # "none") =>
        /\ \A w \in Workers : tasks[w] = <<>> /\ run[w] = Idle
        /\ \A l \in Loaders : loaders[l] \in {EmptyLoader, Preloaded}
        /\ hist.cbs = IF cfg.hasCb
                      THEN SetToBag({<<"manager", NoKey, FALSE, "owner">>})
                      ELSE EmptyBag

\* nothing is left to run: the call returned, the queues and the hook are
\* empty and every thread is idle
Quiescent ==
    /\ ~crashed /\ frame.pc = "done" /\ hook = <<>>
    /\ \A w \in Workers : tasks[w] = <<>>
    /\ \A t \in {"owner"} \cup Workers : run[t] = Idle

\* the per-asset entries of the registered categories, as the callbacks they
\* are due: loader, key, result, thread
EntriesDue ==
    LET E == {<<i, j>> \in (DOMAIN Dir) \X (1..MaxItems) :
                 Known(Dir[i].cat) /\ j \in DOMAIN Dir[i].items}
    IN  BagAddAll(EmptyBag,
            [n \in 1..Cardinality(E) |->
                LET x == SetToSeq(E)[n]
                    e == Dir[x[1]].items[x[2]]
                IN  <<LoaderOf(x[1]), e.key, e.ok, "owner">>])

\* C17: loadDirectoryAsync with a callback invokes it exactly once for every
\* per-asset entry of every registered category, on the owner thread, with
\* the key of the entry and its success or failure
C17_OneCallbackPerEntry ==
    (cfg.hasCb /\ cfg.mode \in {"async", "path"} /\ Quiescent) => hist.cbs = EntriesDue

\* C18: in loadDirectoryAsync with a callback, a category without an
\* attached loader has the callback invoked with the JSON key of the
\* category and failure
C18_UnknownCategoryReported ==
    (cfg.hasCb /\ cfg.mode \in {"async", "path"} /\ Quiescent) =>
        \A i \in DOMAIN Dir :
            ~Known(Dir[i].cat) =>
                \E x \in BagToSet(hist.cbs) : x[2] = Dir[i].cat /\ ~x[3]

\* every loader that the directory names has a thread pool
AllPooled == \A i \in DOMAIN Dir : Known(Dir[i].cat) => cfg.pool[LoaderOf(i)] # "none"

\* the owner thread is inside loadDirectoryAsync
OwnerInCall ==
    ~crashed /\ cfg.mode = "async" /\ frame.th = "owner"
             /\ frame.pc \in {"scan", "sweep", "cat"}

\* the call can take its next step whatever the workers and the hook hold
NeverWaits ==
    OwnerInCall => ENABLED (PreScan \/ SweepCategory \/ DispatchAsync \/ SweepEndAsync)

\* a step of the call on the owner thread loads nothing, materializes
\* nothing, invokes no callback and passes no barrier
OnlyQueues ==
    (frame.th = "owner" /\ frame.pc \in {"none", "scan", "sweep", "cat"} /\ frame' # frame) =>
        /\ \A l \in Loaders : /\ loaders'[l].assets = loaders[l].assets
                               /\ loaders'[l].queue = loaders[l].queue
        /\ hook' = hook /\ run' = run
        /\ hist'.cbs = hist.cbs /\ hist'.matd = hist.matd /\ hist'.passed = hist.passed

C20_FailureIsLocal ==
    (cfg.mode = "sync" /\ (frame.pc = "done" \/ crashed)) =>
        \A i \in hist.cats : \A j \in DOMAIN Dir[i].items :
            (\E k \in DOMAIN Dir[i].items : k # j /\ ~Dir[i].items[k].ok) =>
                /\ <<i, j>> \in hist.disp
                /\ <<i, j, TRUE>> \in hist.loads =>
                       Dir[i].items[j].key \in loaders[LoaderOf(i)].assets

RECURSIVE EntriesOf(_)
\* the entries of the registered categories of d, in order, as <<loader, key>>
EntriesOf(d) ==
    IF d = <<>> THEN <<>>
    ELSE (IF Known(Head(d).cat)
          THEN [j \in DOMAIN Head(d).items |-> <<JsonKeys[Head(d).cat], Head(d).items[j].key>>]
          ELSE <<>>) \o EntriesOf(Tail(d))

\* C21: unloadDirectory calls unload once on every entry of every category
\* with a registered loader, whatever failed or was unknown earlier, and
\* returns true exactly when no category was unknown and every unload
\* returned true
C21_UnloadVisitsAll ==
    frame.pc = "unloaded" =>
        /\ [i \in DOMAIN hist.unloads |-> <<hist.unloads[i][1], hist.unloads[i][2]>>]
               = EntriesOf(Dir)
        /\ hist.unload = "true" <=>
               /\ \A i \in DOMAIN Dir : Known(Dir[i].cat)
               /\ \A i \in DOMAIN hist.unloads : hist.unloads[i][3]

\* an unload that went on after an unknown category and after a failed
\* unload, to a successful one
C21_WentOnSeen ==
    /\ frame.pc = "unloaded" /\ Len(Dir) = 3 /\ ~Known(Dir[1].cat)
    /\ hist.unload = "false" /\ Len(hist.unloads) = 2
    /\ ~hist.unloads[1][3] /\ hist.unloads[2][3]

\* the last call was unload(k) on loader l
Unloaded(l, k) ==
    /\ Len(hist'.log) = Len(hist.log) + 1
    /\ hist'.log[Len(hist'.log)][1] = "unload"
    /\ hist'.log[Len(hist'.log)][2] = l
    /\ hist'.log[Len(hist'.log)][3] = k

\* what the claim says of unload(k) on loader l
UnloadContract(l, k) ==
    /\ hist'.log[Len(hist'.log)][4] = (k \in loaders[l].assets)
    /\ loaders'[l].assets = loaders[l].assets \ {k}
    /\ loaders'[l].queue = loaders[l].queue
    /\ loaders'[l].reserved = loaders[l].reserved

\* C22: unload(key) returns true and removes exactly that key from the table
\* when the key is loaded, returns false with the table unchanged when it is
\* not, and leaves the in-flight set and the reserved counter alone
C22_UnloadRemovesKey ==
    [][\A l \in Loaders : \A k \in LoadKeys : Unloaded(l, k) => UnloadContract(l, k)]_vars

\* a loaded key was unloaded while the loader had a key in flight, an amount
\* reserved or another key loaded
C22_UnloadSeen ==
    /\ Len(hist.log) = 3 /\ hist.log[3][1] = "unload" /\ hist.log[3][4]
    /\ LET L == loaders[hist.log[3][2]]
       IN  L.queue # {} \/ L.reserved > 0 \/ L.assets # {}

\* the directory has two categories: a registered one at rank 0 and one
\* with an unknown key
OneKnownOneUnknown ==
    /\ Len(Dir) = 2
    /\ \E i \in 1..2 : Known(Dir[i].cat) /\ Rank(Dir[i].cat) = 0 /\ ~Known(Dir[3 - i].cat)

\* C23: for a directory of one registered category at rank 0 and one
\* category with an unknown key, loadDirectory returns false and every asset
\* of the registered category that loads is in its loader afterwards
C23_UnknownSparesKnown ==
    (cfg.mode = "sync" /\ frame.pc = "done" /\ OneKnownOneUnknown) =>
        /\ ~frame.success
        /\ \A i \in 1..2 : Known(Dir[i].cat) =>
               \A j \in DOMAIN Dir[i].items :
                   /\ <<i, j>> \in hist.disp
                   /\ Dir[i].items[j].ok =>
                          Dir[i].items[j].key \in loaders[LoaderOf(i)].assets

\* loadDirectory returned on such a directory whose unknown category comes
\* first and whose registered category has two assets, both loaded
C23_SparedSeen ==
    /\ cfg.mode = "sync" /\ frame.pc = "done" /\ OneKnownOneUnknown
    /\ ~Known(Dir[1].cat) /\ Len(Dir[2].items) = 2
    /\ \A j \in 1..2 : Dir[2].items[j].ok
    /\ LoadCount(loaders[LoaderOf(2)]) >= 1

\* C24: in every reachable state of every loader waitCount() is the reserved
\* counter plus the size of the in-flight set, and complete() holds exactly
\* when waitCount() is 0
C24_WaitCountIsSum ==
    \A l \in Loaders :
        /\ WaitCount(loaders[l]) = loaders[l].reserved + Cardinality(loaders[l].queue)
        /\ Complete(loaders[l]) <=> (loaders[l].reserved = 0 /\ loaders[l].queue = {})

\* a loader with an amount reserved and a key in flight at once
C24_BothTermsSeen ==
    \E l \in Loaders :
        /\ loaders[l].reserved > 0 /\ loaders[l].queue # {}
        /\ ~Complete(loaders[l]) /\ hist.started # {}

\* C25: loadAsync on a loader without a thread pool fails: nothing is
\* loaded into the table of such a loader
C25_NoPoolNoAsyncLoad ==
    \A l \in Loaders : cfg.pool[l] = "none" => loaders[l].assets = {}

\* C26: once loadAsync has returned for a key that was neither loaded nor in
\* flight, with nothing reserved, complete() of the loader is false until
\* that asset has been materialized
C26_NotCompleteUntilMaterialized ==
    (cfg.mode = "direct" /\ ~crashed) =>
        \A i \in DOMAIN hist.log :
            (hist.log[i][4] /\ <<hist.log[i][2], hist.log[i][3]>> \notin hist.matd) =>
                ~Complete(loaders[hist.log[i][2]])

\* C27: when the priority loop exits, err is the number of categories of the
\* directory whose key has no registered loader, however many sweeps were
\* made
C27_ErrCountsOnce ==
    frame.pc \in {"done", "unloaded"} =>
        frame.err = Cardinality({i \in DOMAIN Dir : ~Known(Dir[i].cat)})

\* the priority loop of the directory call is under way or over
InLoop == frame.pc \in {"scan", "sweep", "cat", "done", "unloaded"}

C29_LoopTerminates ==
    (frame.pc = "scan") ~> (frame.pc = "done" \/ crashed)

\* the loop exited on a directory with an unknown category whose registered
\* categories are both at rank 2: none at rank 0, and a gap
C29_HardCaseDoneSeen ==
    /\ frame.pc = "done" /\ Len(Dir) = 3 /\ hist.cats # {}
    /\ \E i \in DOMAIN Dir : ~Known(Dir[i].cat)
    /\ \A i \in DOMAIN Dir : Known(Dir[i].cat) => Rank(Dir[i].cat) = 2

\* C30: under fair scheduling of the manager's worker and of the owner's
\* hook, every barrier queued by loadDirectoryAsync eventually passes: the
\* run reaches a state where the worker's queue is empty, the worker is idle
\* and no loader has a key in flight (unless the process has died)
C30_BarriersPass ==
    (frame.pc = "scan") ~>
        (crashed \/ (/\ frame.pc = "done" /\ tasks["mgr"] = <<>> /\ run["mgr"] = Idle
                      /\ hist.passed = hist.barriers
                      /\ \A l \in Loaders : InFlight(loaders[l]) = 0))

\* a load task has been queued and has not yet put its key into the
\* in-flight set: it waits in a pool's queue or its worker has just taken it
LoadTaskPending ==
    \E w \in Workers :
        \/ run[w].op = "enq"
        \/ \E i \in DOMAIN tasks[w] : tasks[w][i].op = "load"

\* C31: whatever pool a loader runs its load tasks on, a barrier does not
\* pass while a load task of the current rank has been queued but has not
\* yet put its key into the in-flight set (with every category at rank 0 the
\* load tasks are all of the first rank, queued before the first barrier)
C31_BarrierWaitsForQueuedLoads ==
    [][((\A i \in DOMAIN Dir : Known(Dir[i].cat) => Rank(Dir[i].cat) = 0)
            /\ hist'.passed > hist.passed)
         => ~LoadTaskPending]_vars

\* C32: once loadDirectory has returned, every attached loader has
\* waitCount() = 0: nothing is in flight and no reserved count is left over,
\* also when the directory lists a key twice (stated for the directories
\* without a scene category: what a failed scene leaves in flight is C4's)
C32_NothingLeftWaiting ==
    (/\ cfg.mode = "sync" /\ frame.pc = "done" /\ ~crashed
     /\ \A i \in DOMAIN Dir : Dir[i].cat # "scene2s")
        => \A l \in Loaders : WaitCount(loaders[l]) = 0

\* C33: the pre-scan is over before any asset is dispatched: at the first
\* dispatch the loader of every registered category has reserved as many
\* loads as the category has entries whose key the loader does not contain
C33_ReservedBeforeFirstDispatch ==
    (frame.pc = "cat" /\ hist.disp = {})
        => \A i \in Registered :
               loaders[LoaderOf(i)].reserved =
                   Cardinality({j \in DOMAIN Dir[i].items :
                                   Dir[i].items[j].key \notin loaders[LoaderOf(i)].assets})

\* the first dispatch of a directory of two categories, one of a loader that
\* holds the key already
C33_HeldKeySeen ==
    /\ frame.pc = "cat" /\ hist.disp = {} /\ Len(Dir) = 2
    /\ \E i, j \in Registered :
          /\ loaders[LoaderOf(i)].reserved = 0
          /\ loaders[LoaderOf(j)].reserved = 1

\* the ranks of the registered categories that are above r
Higher(r) == {Rank(Dir[i].cat) : i \in {j \in Registered : Rank(Dir[j].cat) > r}}

Least(S) == CHOOSE x \in S : \A y \in S : x <= y

\* the end of a sweep after which the loop goes on
NextSweep ==
    /\ frame.pc = "sweep" /\ frame.ii > Len(Dir)
    /\ frame'.pc = "sweep" /\ frame'.ii = 1

\* C34: a sweep that is followed by another leaves in curr the least rank of
\* a registered category above the rank just swept, and when the loop has
\* ended every rank of a registered category has been swept: the ranks
\* visited after 0 are the ranks present, ascending, none skipped
C34_RanksVisitedAscending ==
    [][/\ NextSweep =>
              /\ Higher(frame.curr) # {}
              /\ frame'.curr = Least(Higher(frame.curr))
       /\ frame'.pc = "done" => \A i \in Registered : i \in hist'.cats]_vars

\* C35: when the loader table holds nullptr for a loader whose category the
\* directory names, loadDirectory does not return: it stops on an assertion
C35_NullLoaderStops ==
    (\E i \in Registered : NullLoader(Dir[i].cat)) => frame.pc # "done"

\* the step is a load(key) of loader l that returned, of a key that was
\* neither loaded nor in flight
FreshLoad(l) ==
    /\ Len(hist'.log) = Len(hist.log) + 1
    /\ hist'.log[Len(hist'.log)][1] = "load"
    /\ hist'.log[Len(hist'.log)][2] = l
    /\ ~ReadGuard(loaders[l], hist'.log[Len(hist'.log)][3])
    /\ ~crashed'

\* C36: a synchronous read of a key that is neither loaded nor in flight
\* returns true exactly when the key is in the loaded table after the call,
\* and whatever it returns the key is not in the in-flight set afterwards
C36_SyncReadLeavesNothingInFlight ==
    [][\A l \in Loaders :
          FreshLoad(l) =>
              LET call == hist'.log[Len(hist'.log)]
              IN  /\ call[4] <=> call[3] \in loaders'[l].assets
                  /\ call[3] \notin loaders'[l].queue]_vars

\* the dependencies of the widget that the owner is materializing
DepsOf(e) == {e.deps[i] : i \in DOMAIN e.deps}

UnloadsAll(l) ==
    /\ Len(hist'.log) = Len(hist.log) + 1
    /\ hist'.log[Len(hist'.log)] = <<"unloadAll", l>>

\* C38: unloadAll() leaves loadCount() = 0 and no key in keys(), and leaves
\* the in-flight set and the reserved counter as they were: the loads in
\* flight are not cancelled, their tasks and closures stay where they are
C38_UnloadAllSparesInFlight ==
    [][\A l \in Loaders :
          UnloadsAll(l) =>
              /\ LoadCount(loaders'[l]) = 0 /\ Keys(loaders'[l]) = {}
              /\ loaders'[l].queue = loaders[l].queue
              /\ loaders'[l].reserved = loaders[l].reserved
              /\ tasks' = tasks /\ hook' = hook /\ run' = run]_vars

\* a key in flight at the unloadAll() was materialized afterwards: with a
\* count reserved, the font a was asked for, then unloadAll() emptied the
\* loader, and now a is in the table
C38_MaterializedAfterwards ==
    /\ hist.log = << <<"loadAsync", "font", "a", TRUE>>, <<"unloadAll", "font">> >>
    /\ "a" \in loaders["font"].assets
    /\ <<"font", "a">> \in hist.matd
    /\ loaders["font"].reserved > 0

\* entry <<i, j>> of the directory comes before entry <<ii, jj>>
Before(i, j, ii, jj) == i < ii \/ (i = ii /\ j < jj)

\* the entries of the registered categories that have the rank of category ii
SameRank(ii) ==
    {<<i, j>> \in Registered \X (1..MaxItems) :
        j \in DOMAIN Dir[i].items /\ Rank(Dir[i].cat) = Rank(Dir[ii].cat)}

====
